---- MODULE Spec2Model ----
(***************************************************************************)
(* avalon-tracker: the domain model and game queries (src/src/types.rs),   *)
(* the standings aggregation and its presenter (src/src/types.rs) and the  *)
(* SQLite persistence adapter (src/src/db.rs).                             *)
(*                                                                         *)
(* Five specifications share the module:                                   *)
(*   SpecQuery      the pure queries on one GameInfo                       *)
(*   SpecStandings  standings(), standings_by_alignment(), Standings::fmt  *)
(*   Spec           one create_game call, step by step, and find_game      *)
(*   SpecTxn        two create_game calls and a find_game, interleaved     *)
(*   SpecDecode     find_game on rows holding arbitrary text               *)
(***************************************************************************)
EXTENDS Integers, Sequences, FiniteSets, TLC

VARIABLES
    game,          \* SpecQuery: the GameInfo the queries are applied to
    q_winners,     \* Option: result of GameInfo::winners
    q_all,         \* Option: result of GameInfo::all_players
    q_with,        \* Option: [alignment, players] of players_with_alignment
    q_align,       \* Option: [role, alignment] of Role::alignment
    games,         \* SpecStandings: the slice of GameInfo folded
    standing,      \* Option: result of standings(games)
    by_alignment,  \* Option: result of standings_by_alignment(games)
    shown,         \* Option: the player lines Standings::fmt wrote, in order
    db,            \* the committed rows of the SQLite tables
    uuid,          \* how many ids Uuid::new_v4 has handed out (id k is the k-th)
    wr,            \* per caller of create_game: its position, locals, open transaction
    loaded,        \* Option: [id, res, after] of the last find_game that returned
    rd             \* the caller of find_game whose queries interleave with writers

query_vars == <<game, q_winners, q_all, q_with, q_align>>
standings_vars == <<games, standing, by_alignment, shown>>
store_vars == <<db, uuid, wr, loaded, rd>>
vars == <<game, q_winners, q_all, q_with, q_align, games, standing, by_alignment, shown, db, uuid, wr, loaded, rd>>

\* Option<T>: None is the empty sequence, Some(x) the one-element sequence.
None == <<>>
Some(x) == <<x>>

-----------------------------------------------------------------------------
(* Domain model *)

Roles == {"Assassin", "Merlin", "Minion", "Mordred", "Morgana", "Oberon", "Percival", "ReverseOberon", "Servant"}

Alignments == {"Good", "Evil"}

QuestStatuses == {"Success", "Fail"}

VictoryTypes == {"Assassination", "Quest"}

\* A plausible slip in the table: Oberon listed with the Good roles.
alignment_oberon_good(role) ==
    CASE role \in {"Assassin", "Morgana", "Minion", "Mordred"} -> "Evil"
      [] role \in {"Merlin", "Percival", "ReverseOberon", "Servant", "Oberon"} -> "Good"

\* Role::alignment: an exhaustive match, one arm per alignment.
alignment(role) ==
    CASE role \in {"Assassin", "Morgana", "Minion", "Mordred", "Oberon"} -> "Evil"
      [] role \in {"Merlin", "Percival", "ReverseOberon", "Servant"} -> "Good"

-----------------------------------------------------------------------------
(* Game query layer.  The code returns a Vec<&String> collected from the     *)
(* HashMap's iterator: distinct keys in an unspecified order, used only      *)
(* through contains(); it is modelled as the set of those keys.              *)

\* A slip: the filter keeps the players whose alignment differs.
winners_losers(g) ==
    {k \in DOMAIN g.players : alignment(g.players[k]) # g.result.winner}

winners(g) ==
    LET a == g.result.winner
    IN  {k \in DOMAIN g.players : alignment(g.players[k]) = a}

all_players(g) == DOMAIN g.players

players_with_alignment(g, a) ==
    {k \in DOMAIN g.players : alignment(g.players[k]) = a}

-----------------------------------------------------------------------------
(* Standings aggregator *)

\* Record::default
RecordDefault == [wins |-> 0, losses |-> 0]

\* HashMap::entry(k).or_insert_with(Record::default), then the increment.
Bump(st, player, won) ==
    LET old == IF player \in DOMAIN st THEN st[player] ELSE RecordDefault
        new == IF won THEN [old EXCEPT !.wins = @ + 1]
                      ELSE [old EXCEPT !.losses = @ + 1]
    IN  [k \in DOMAIN st \cup {player} |-> IF k = player THEN new ELSE st[k]]

RECURSIVE BumpAll(_, _, _)
\* The inner for loop over a Vec of distinct players (any order: the
\* increments of distinct keys commute).
BumpAll(st, players, won) ==
    IF players = {} THEN st
    ELSE LET p == CHOOSE x \in players : TRUE
         IN  BumpAll(Bump(st, p, p \in won), players \ {p}, won)

\* A slip: the entry is inserted fresh each time instead of looked up.
RecordGame_reset(st, g) ==
    [k \in DOMAIN st \cup all_players(g) |->
        IF k \in all_players(g)
        THEN (IF k \in winners(g) THEN [wins |-> 1, losses |-> 0]
                                  ELSE [wins |-> 0, losses |-> 1])
        ELSE st[k]]

\* The body of standings()'s loop over the games.
RecordGame(st, g) == BumpAll(st, all_players(g), winners(g))

RECURSIVE FoldStandings(_, _)
FoldStandings(st, info) ==
    IF info = <<>> THEN st
    ELSE FoldStandings(RecordGame(st, Head(info)), Tail(info))

\* standings(): folds the slice from an empty HashMap.
standings(info) == FoldStandings(<<>>, info)

\* A slip: every player of the game is recorded in both buckets.
RecordByAlignment_all(sts, g) ==
    [a \in Alignments |-> BumpAll(sts[a], all_players(g), winners(g))]

\* The body of standings_by_alignment()'s loop: both alignments, in order.
RecordByAlignment(sts, g) ==
    [a \in Alignments |-> BumpAll(sts[a], players_with_alignment(g, a), winners(g))]

RECURSIVE FoldByAlignment(_, _)
FoldByAlignment(sts, info) ==
    IF info = <<>> THEN sts
    ELSE FoldByAlignment(RecordByAlignment(sts, Head(info)), Tail(info))

\* standings_by_alignment(): the outer map gets its two buckets on the first
\* game; with no game at all it stays empty.
standings_by_alignment(info) ==
    IF info = <<>> THEN <<>>
    ELSE FoldByAlignment([a \in Alignments |-> <<>>], info)

-----------------------------------------------------------------------------
(* Standings presenter *)

\* Byte-wise order of the player names used below (String::cmp).
NameRank == [n \in {"alice", "bob", "carol"} |-> CASE n = "alice" -> 1 [] n = "bob" -> 2 [] n = "carol" -> 3]

\* Ord::cmp on integers.
Cmp(x, y) == IF x < y THEN "Less" ELSE IF x > y THEN "Greater" ELSE "Equal"

\* Record::win_percentage is wins / (wins + losses) in f32: NaN exactly when
\* both are 0.  For the small counts here the f32 quotients compare as the
\* exact fractions do, so partial_cmp is decided by cross-multiplication;
\* it is None when either side is NaN.
IsNaN(r) == r.wins + r.losses = 0

PartialCmpPercentage(x, y) ==
    IF IsNaN(x) \/ IsNaN(y) THEN None
    ELSE Some(Cmp(x.wins * (y.wins + y.losses), y.wins * (x.wins + x.losses)))

\* The order the presenter is specified to write: the names decide whenever
\* wins and percentages do not.
RankingOrder(a, b) ==
    LET w == Cmp(b.rec.wins, a.rec.wins)
        p == PartialCmpPercentage(b.rec, a.rec)
    IN  IF w # "Equal" THEN w
        ELSE IF p # None /\ p[1] # "Equal" THEN p[1]
        ELSE Cmp(NameRank[a.name], NameRank[b.name])

\* The closure given to sort_by: a line is [name, rec].
Compare(a, b) ==
    LET w == Cmp(b.rec.wins, a.rec.wins)
        p == PartialCmpPercentage(b.rec, a.rec)
    IN  CASE w = "Equal" -> (IF p # None THEN p[1]
                             ELSE Cmp(NameRank[a.name], NameRank[b.name]))
          [] w = "Less" -> "Less"
          [] w = "Greater" -> "Greater"

RECURSIVE InsertTail(_, _)
\* slice::sort_by is stable; on short slices it is an insertion sort: the
\* new element moves left while it is Less than its left neighbour.
InsertTail(s, x) ==
    IF s = <<>> THEN <<x>>
    ELSE IF Compare(x, s[Len(s)]) = "Less"
         THEN Append(InsertTail(SubSeq(s, 1, Len(s) - 1), x), s[Len(s)])
         ELSE Append(s, x)

RECURSIVE SortBy(_)
SortBy(s) ==
    IF s = <<>> THEN <<>>
    ELSE InsertTail(SortBy(SubSeq(s, 1, Len(s) - 1)), s[Len(s)])

\* HashMap::iter(): every order of the entries is possible.
IterOrders(st) ==
    LET n == Cardinality(DOMAIN st)
    IN  {o \in [1..n -> DOMAIN st] : \A i, j \in 1..n : i # j => o[i] # o[j]}

\* The player lines of Standings::fmt for one iteration order.
FmtLines(st, order) ==
    SortBy([i \in 1..Len(order) |-> [name |-> order[i], rec |-> st[order[i]]]])

-----------------------------------------------------------------------------
(* Persistence adapter: the tables and the text the enums are stored as *)

Result_Ok(g) == [ok |-> TRUE, err |-> "", game |-> g]

NoGame == [players |-> <<>>, quests |-> <<>>, result |-> [winner |-> "Good", victory_type |-> "Quest"]]

Result_Err(e) == [ok |-> FALSE, err |-> e, game |-> NoGame]

\* #[sqlx(rename_all = "lowercase")] on Role: the text bound to a statement.
RoleText(role) ==
    CASE role = "Assassin" -> "assassin"
      [] role = "Merlin" -> "merlin"
      [] role = "Minion" -> "minion"
      [] role = "Mordred" -> "mordred"
      [] role = "Morgana" -> "morgana"
      [] role = "Oberon" -> "oberon"
      [] role = "Percival" -> "percival"
      [] role = "ReverseOberon" -> "reverseoberon"
      [] role = "Servant" -> "servant"

\* #[sqlx(rename_all = "lowercase")] on Alignment.
AlignmentText(a) == CASE a = "Good" -> "good" [] a = "Evil" -> "evil"

\* #[sqlx(rename_all = "lowercase")] on QuestStatus.
StatusText(st) == CASE st = "Success" -> "success" [] st = "Fail" -> "fail"

\* Role::try_from(&str): Some(role), or None for Err(sqlx::Error::PoolClosed).
RoleTryFrom(value) ==
    CASE value = "assassin" -> Some("Assassin")
      [] value = "merlin" -> Some("Merlin")
      [] value = "minion" -> Some("Minion")
      [] value = "mordred" -> Some("Mordred")
      [] value = "morgana" -> Some("Morgana")
      [] value = "oberon" -> Some("Oberon")
      [] value = "percival" -> Some("Percival")
      [] value = "reverseoberon" -> Some("ReverseOberon")
      [] value = "servant" -> Some("Servant")
      [] OTHER -> None

\* The five tables.  games, player_roles and quests are read by key, in no
\* order that matters; games_to_quests and quest_participants are read back
\* in rowid order, the order of insertion.
EmptyDb ==
    [games |-> {}, player_roles |-> {}, quests |-> {},
     games_to_quests |-> <<>>, quest_participants |-> <<>>]

Insert(tables, table, row) ==
    CASE table = "games" -> [tables EXCEPT !.games = @ \cup {row}]
      [] table = "player_roles" -> [tables EXCEPT !.player_roles = @ \cup {row}]
      [] table = "quests" -> [tables EXCEPT !.quests = @ \cup {row}]
      [] table = "games_to_quests" -> [tables EXCEPT !.games_to_quests = Append(@, row)]
      [] table = "quest_participants" -> [tables EXCEPT !.quest_participants = Append(@, row)]

\* A slip: the statement is executed on the pool, outside the transaction,
\* so the row is committed at once.
Execute_on_pool(txn, database, table, row) ==
    [txn |-> txn, db |-> Insert(database, table, row)]

\* query!(..).execute(&mut txn): the row is pending in the transaction; the
\* committed tables do not change.
Execute(txn, database, table, row) ==
    [txn |-> Insert(txn, table, row), db |-> database]

\* txn.commit(): the pending rows become visible together.
CommitTxn(txn, database) ==
    [games |-> database.games \cup txn.games,
     player_roles |-> database.player_roles \cup txn.player_roles,
     quests |-> database.quests \cup txn.quests,
     games_to_quests |-> database.games_to_quests \o txn.games_to_quests,
     quest_participants |-> database.quest_participants \o txn.quest_participants]

-----------------------------------------------------------------------------
(* create_game, one step per await *)

Writers == {"w1", "w2"}

IdleWriter ==
    [pc |-> "idle", game |-> NoGame, game_id |-> 0, quest_ids |-> <<>>,
     txn |-> EmptyDb, left |-> {}, qi |-> 0, pi |-> 0]

\* The position after the quest loop's k-1 first rounds.
EnterQuest(s, k) ==
    IF k > Len(s.game.quests) THEN [s EXCEPT !.pc = "commit", !.qi = 0, !.pi = 0]
    ELSE [s EXCEPT !.pc = "quest", !.qi = k, !.pi = 0]

\* The position in the participants loop of quest s.qi.
EnterParticipant(s, j) ==
    IF j > Len(s.game.quests[s.qi].participants) THEN EnterQuest(s, s.qi + 1)
    ELSE [s EXCEPT !.pc = "participants", !.pi = j]

\* The position in the players loop.
EnterPlayers(s) ==
    IF s.left = {} THEN EnterQuest(s, 1) ELSE [s EXCEPT !.pc = "players"]

\* A caller enters create_game with its game.
Call(w, g) ==
    /\ wr[w].pc = "idle"
    /\ wr' = [wr EXCEPT ![w] = [IdleWriter EXCEPT !.pc = "begin", !.game = g]]
    /\ UNCHANGED <<db, uuid, loaded, rd, query_vars, standings_vars>>

\* pool.begin() and the game's fresh id.
Begin(w) ==
    /\ wr[w].pc = "begin"
    /\ uuid' = uuid + 1
    /\ wr' = [wr EXCEPT ![w] = [@ EXCEPT !.pc = "games", !.game_id = uuid + 1]]
    /\ UNCHANGED <<db, loaded, rd, query_vars, standings_vars>>

InsertGame(w) ==
    LET s == wr[w]
        row == [id |-> s.game_id, winner |-> Some(AlignmentText(s.game.result.winner))]
        r == Execute(s.txn, db, "games", row)
    IN  /\ s.pc = "games"
        /\ db' = r.db
        /\ wr' = [wr EXCEPT ![w] = EnterPlayers([s EXCEPT !.txn = r.txn, !.left = DOMAIN s.game.players])]
        /\ UNCHANGED <<uuid, loaded, rd, query_vars, standings_vars>>

\* One round of the loop over the HashMap: any player not yet inserted.
InsertPlayer(w) ==
    LET s == wr[w]
    IN  /\ s.pc = "players"
        /\ \E player \in s.left :
             LET row == [game_id |-> s.game_id, name |-> player, role |-> RoleText(s.game.players[player])]
                 r == Execute(s.txn, db, "player_roles", row)
             IN  /\ db' = r.db
                 /\ wr' = [wr EXCEPT ![w] = EnterPlayers([s EXCEPT !.txn = r.txn, !.left = @ \ {player}])]
        /\ UNCHANGED <<uuid, loaded, rd, query_vars, standings_vars>>

\* quest.fails.unwrap_or(0)
FailsOrZero(fails) == IF fails = None THEN 0 ELSE fails[1]

InsertQuest(w) ==
    LET s == wr[w]
        quest == s.game.quests[s.qi]
        row == [id |-> uuid + 1, fails |-> Some(FailsOrZero(quest.fails)), status |-> StatusText(quest.status)]
        r == Execute(s.txn, db, "quests", row)
    IN  /\ s.pc = "quest"
        /\ uuid' = uuid + 1
        /\ db' = r.db
        /\ wr' = [wr EXCEPT ![w] = [s EXCEPT !.pc = "link", !.txn = r.txn, !.quest_ids = Append(@, uuid + 1)]]
        /\ UNCHANGED <<loaded, rd, query_vars, standings_vars>>

InsertLink(w) ==
    LET s == wr[w]
        row == [game_id |-> s.game_id, quest_id |-> s.quest_ids[s.qi]]
        r == Execute(s.txn, db, "games_to_quests", row)
    IN  /\ s.pc = "link"
        /\ db' = r.db
        /\ wr' = [wr EXCEPT ![w] = EnterParticipant([s EXCEPT !.txn = r.txn], 1)]
        /\ UNCHANGED <<uuid, loaded, rd, query_vars, standings_vars>>

\* game.players.get(participant).unwrap_or(&Role::Servant)
RoleOrServant(players, participant) ==
    IF participant \in DOMAIN players THEN players[participant] ELSE "Servant"

InsertParticipant(w) ==
    LET s == wr[w]
        participant == s.game.quests[s.qi].participants[s.pi]
        row == [quest_id |-> s.quest_ids[s.qi], name |-> participant,
                role |-> RoleText(RoleOrServant(s.game.players, participant))]
        r == Execute(s.txn, db, "quest_participants", row)
    IN  /\ s.pc = "participants"
        /\ db' = r.db
        /\ wr' = [wr EXCEPT ![w] = EnterParticipant([s EXCEPT !.txn = r.txn], s.pi + 1)]
        /\ UNCHANGED <<uuid, loaded, rd, query_vars, standings_vars>>

Commit(w) ==
    /\ wr[w].pc = "commit"
    /\ db' = CommitTxn(wr[w].txn, db)
    /\ wr' = [wr EXCEPT ![w] = [@ EXCEPT !.pc = "ok", !.txn = EmptyDb]]
    /\ UNCHANGED <<uuid, loaded, rd, query_vars, standings_vars>>

\* Any await may return Err (a busy database, a constraint, a lost
\* connection): `?` returns it and the dropped Transaction rolls back.
Fail(w) ==
    /\ wr[w].pc \in {"begin", "games", "players", "quest", "link", "participants", "commit"}
    /\ wr' = [wr EXCEPT ![w] = [@ EXCEPT !.pc = "err", !.txn = EmptyDb]]
    /\ UNCHANGED <<db, uuid, loaded, rd, query_vars, standings_vars>>

create_game(w) ==
    \/ Begin(w)
    \/ InsertGame(w)
    \/ InsertPlayer(w)
    \/ InsertQuest(w)
    \/ InsertLink(w)
    \/ InsertParticipant(w)
    \/ Commit(w)
    \/ Fail(w)

-----------------------------------------------------------------------------
(* find_game: its queries, each on the committed tables *)

\* SELECT winner FROM games WHERE id = ? (fetch_one): the rows found.
SelectWinner(database, id) == {r \in database.games : r.id = id}

\* A slip: fetch_optional and a default row, so that an unknown id reads as
\* a game with a NULL winner.
FetchWinner_or_default(database, id) ==
    IF SelectWinner(database, id) = {} THEN Some([id |-> id, winner |-> None])
    ELSE Some(CHOOSE r \in SelectWinner(database, id) : TRUE)

\* fetch_one(pool) on that query: Some(row), or None for Err(RowNotFound)
\* when the query has no row.
FetchWinner(database, id) ==
    IF SelectWinner(database, id) = {} THEN None
    ELSE Some(CHOOSE r \in SelectWinner(database, id) : TRUE)

\* SELECT name, role FROM player_roles WHERE game_id = ?
SelectPlayers(database, id) == {r \in database.player_roles : r.game_id = id}

\* The loop over the player rows: Some(map), or None when Role::try_from
\* returned Err for some row.
DecodePlayers(rows) ==
    IF \E r \in rows : RoleTryFrom(r.role) = None THEN None
    ELSE Some([n \in {r.name : r \in rows} |->
                 RoleTryFrom((CHOOSE r \in rows : r.name = n).role)[1]])

\* SELECT quest_id from games_to_quests WHERE game_id = ?
SelectQuestIds(database, id) ==
    LET Linked(r) == r.game_id = id
        rows == SelectSeq(database.games_to_quests, Linked)
    IN  [i \in 1..Len(rows) |-> rows[i].quest_id]

\* SELECT fails, status FROM quests where id = ? (fetch_one): the rows found.
SelectQuest(database, qid) == {r \in database.quests : r.id = qid}

\* SELECT name from quest_participants where quest_id = ?
SelectParticipants(database, qid) ==
    LET Of(r) == r.quest_id = qid
        rows == SelectSeq(database.quest_participants, Of)
    IN  [i \in 1..Len(rows) |-> rows[i].name]

\* A slip the other way: the stored status text is decoded into the Quest.
LoadedQuest_decoded(row, participant_names) ==
    [status |-> IF row.status = "fail" THEN "Fail" ELSE "Success",
     fails |-> row.fails, participants |-> participant_names]

\* The Quest pushed for one quest row: its status is the literal Success.
LoadedQuest(row, participant_names) ==
    [status |-> "Success", fails |-> row.fails, participants |-> participant_names]

\* The tail of find_game: the winner and the victory type from what was read.
BuildGame(raw_winner, players, quests) ==
    LET num_failures == Cardinality({i \in 1..Len(quests) : quests[i].status = "Fail"})
        winner == IF raw_winner = Some("good") THEN "Good" ELSE "Evil"
        victory_type == IF num_failures < 3 /\ winner = "Evil" THEN "Assassination" ELSE "Quest"
    IN  [players |-> players, quests |-> quests,
         result |-> [winner |-> winner, victory_type |-> victory_type]]

RECURSIVE LoadQuests(_, _)
\* The loop over the quest ids: Some(quests), or None when fetch_one found
\* no quest row for an id.
LoadQuests(database, qids) ==
    IF qids = <<>> THEN Some(<<>>)
    ELSE LET rows == SelectQuest(database, Head(qids))
             rest == LoadQuests(database, Tail(qids))
         IN  IF rows = {} \/ rest = None THEN None
             ELSE Some(<<LoadedQuest(CHOOSE r \in rows : TRUE, SelectParticipants(database, Head(qids)))>> \o rest[1])

\* find_game with no write between its queries.
find_game(database, game_id) ==
    LET header == FetchWinner(database, game_id)
        players == DecodePlayers(SelectPlayers(database, game_id))
        quests == LoadQuests(database, SelectQuestIds(database, game_id))
    IN  IF header = None THEN Result_Err("RowNotFound")
        ELSE IF players = None THEN Result_Err("PoolClosed")
        ELSE IF quests = None THEN Result_Err("RowNotFound")
        ELSE Result_Ok(BuildGame(header[1].winner, players[1], quests[1]))

\* The ids of the games whose create_game call has returned Ok.
StoredIds == {wr[w].game_id : w \in {x \in DOMAIN wr : wr[x].pc = "ok"}}

\* A find_game call that runs with no write between its queries.  `after`
\* remembers which games were stored when it ran.
FindGame(id) ==
    /\ loaded' = Some([id |-> id, res |-> find_game(db, id), after |-> StoredIds])
    /\ UNCHANGED <<db, uuid, wr, rd, query_vars, standings_vars>>

(* find_game, one step per await, for the caller whose queries interleave   *)
(* with the writers' commits.                                               *)

IdleReader ==
    [pc |-> "idle", id |-> 0, raw_winner |-> None, players |-> <<>>,
     quest_ids |-> <<>>, quests |-> <<>>, qi |-> 0, row |-> <<>>, res |-> Result_Err("")]

ReaderDone(r, res) == [IdleReader EXCEPT !.pc = "done", !.id = r.id, !.res = res]

\* The position in the loop over the quest ids; past the last one the
\* function returns Ok with the game built.
ReaderEnterQuest(r, k) ==
    IF k > Len(r.quest_ids) THEN ReaderDone(r, Result_Ok(BuildGame(r.raw_winner, r.players, r.quests)))
    ELSE [r EXCEPT !.pc = "quest", !.qi = k, !.row = <<>>]

StartFind(id) ==
    /\ rd.pc = "idle"
    /\ rd' = [IdleReader EXCEPT !.pc = "winner", !.id = id]
    /\ UNCHANGED <<db, uuid, wr, loaded, query_vars, standings_vars>>

ReadWinner ==
    /\ rd.pc = "winner"
    /\ LET header == FetchWinner(db, rd.id)
       IN  rd' = IF header = None THEN ReaderDone(rd, Result_Err("RowNotFound"))
                 ELSE [rd EXCEPT !.pc = "players", !.raw_winner = header[1].winner]
    /\ UNCHANGED <<db, uuid, wr, loaded, query_vars, standings_vars>>

ReadPlayers ==
    /\ rd.pc = "players"
    /\ LET players == DecodePlayers(SelectPlayers(db, rd.id))
       IN  rd' = IF players = None THEN ReaderDone(rd, Result_Err("PoolClosed"))
                 ELSE [rd EXCEPT !.pc = "quest_ids", !.players = players[1]]
    /\ UNCHANGED <<db, uuid, wr, loaded, query_vars, standings_vars>>

ReadQuestIds ==
    /\ rd.pc = "quest_ids"
    /\ rd' = ReaderEnterQuest([rd EXCEPT !.quest_ids = SelectQuestIds(db, rd.id)], 1)
    /\ UNCHANGED <<db, uuid, wr, loaded, query_vars, standings_vars>>

ReadQuest ==
    /\ rd.pc = "quest"
    /\ LET rows == SelectQuest(db, rd.quest_ids[rd.qi])
       IN  rd' = IF rows = {} THEN ReaderDone(rd, Result_Err("RowNotFound"))
                 ELSE [rd EXCEPT !.pc = "participants", !.row = Some(CHOOSE r \in rows : TRUE)]
    /\ UNCHANGED <<db, uuid, wr, loaded, query_vars, standings_vars>>

ReadParticipants ==
    /\ rd.pc = "participants"
    /\ LET names == SelectParticipants(db, rd.quest_ids[rd.qi])
           quest == LoadedQuest(rd.row[1], names)
       IN  rd' = ReaderEnterQuest([rd EXCEPT !.quests = Append(@, quest)], rd.qi + 1)
    /\ UNCHANGED <<db, uuid, wr, loaded, query_vars, standings_vars>>

find_game_steps == ReadWinner \/ ReadPlayers \/ ReadQuestIds \/ ReadQuest \/ ReadParticipants

-----------------------------------------------------------------------------
(* Inputs *)

MaxGames == 3

PlayerNames == {"alice", "bob"}

\* HashMap<String, Role>: a function on any subset of the names.
PlayerMaps(names, roles) == UNION {[S -> roles] : S \in SUBSET names}

Results == [winner : Alignments, victory_type : VictoryTypes]

\* The games the queries are applied to: every role, no quest.
QueryGames == [players : PlayerMaps(PlayerNames, Roles), quests : {<<>>}, result : Results]

\* The games folded into standings: one role of each alignment.
StandingsGames ==
    [players : PlayerMaps(PlayerNames, {"Merlin", "Assassin"}), quests : {<<>>},
     result : [winner : Alignments, victory_type : {"Quest"}]]

SeqsUpTo(S, n) == UNION {[1..k -> S] : k \in 0..n}

MaxQuests == 1

\* The quests of a game given to create_game: either status, the fail count
\* absent or present, and participants that are or are not all players.
StoreQuests ==
    [status : QuestStatuses, fails : {None, Some(1)},
     participants : {<<"alice">>, <<"bob", "alice">>}]

\* The games given to create_game.
StoreGames ==
    [players : PlayerMaps(PlayerNames, {"Merlin", "Assassin"}),
     quests : SeqsUpTo(StoreQuests, MaxQuests), result : Results]

\* The games the two concurrent callers store: one or two players, up to
\* MaxQuests quests of two participants each, either winner.
TxnGames ==
    [players : {[n \in {"alice"} |-> "Merlin"], [n \in PlayerNames |-> IF n = "alice" THEN "Merlin" ELSE "Assassin"]},
     quests : SeqsUpTo({[status |-> "Fail", fails |-> Some(1), participants |-> <<"bob", "alice">>]}, MaxQuests),
     result : [winner : Alignments, victory_type : {"Quest"}]]

\* Text a row can hold that create_game never wrote: NULL or another
\* spelling of a winner, a role or a status.
RawWinners == {None, Some("good"), Some("evil"), Some("Good"), Some("neutral")}

RawRoles == {RoleText(r) : r \in Roles} \cup {"reverse_oberon", "Merlin"}

RawStatuses == {"success", "fail", "failed", ""}

\* A database file holding one game of one player and one quest.
RawDb(winner, role, status) ==
    [games |-> {[id |-> 1, winner |-> winner]},
     player_roles |-> {[game_id |-> 1, name |-> "alice", role |-> role]},
     quests |-> {[id |-> 2, fails |-> Some(0), status |-> status]},
     games_to_quests |-> <<[game_id |-> 1, quest_id |-> 2]>>,
     quest_participants |-> <<[quest_id |-> 2, name |-> "alice", role |-> role]>>]

QueryIdle == game = NoGame /\ q_winners = None /\ q_all = None /\ q_with = None /\ q_align = None

StandingsIdle == games = <<>> /\ standing = None /\ by_alignment = None /\ shown = None

StoreIdle ==
    /\ db = EmptyDb /\ uuid = 0 /\ wr = [w \in Writers |-> IdleWriter]
    /\ loaded = None /\ rd = IdleReader

-----------------------------------------------------------------------------
(* SpecQuery: the pure queries applied to one game *)

InitQuery ==
    /\ game \in QueryGames
    /\ q_winners = None /\ q_all = None /\ q_with = None /\ q_align = None
    /\ StandingsIdle /\ StoreIdle

Winners ==
    /\ q_winners = None
    /\ q_winners' = Some(winners(game))
    /\ UNCHANGED <<game, q_all, q_with, q_align, games, standing, by_alignment, shown, db, uuid, wr, loaded, rd>>

AllPlayers ==
    /\ q_all = None
    /\ q_all' = Some(all_players(game))
    /\ UNCHANGED <<game, q_winners, q_with, q_align, games, standing, by_alignment, shown, db, uuid, wr, loaded, rd>>

PlayersWithAlignment(a) ==
    /\ q_with = None
    /\ q_with' = Some([alignment |-> a, players |-> players_with_alignment(game, a)])
    /\ UNCHANGED <<game, q_winners, q_all, q_align, games, standing, by_alignment, shown, db, uuid, wr, loaded, rd>>

RoleAlignment(r) ==
    /\ q_align = None
    /\ q_align' = Some([role |-> r, alignment |-> alignment(r)])
    /\ UNCHANGED <<game, q_winners, q_all, q_with, games, standing, by_alignment, shown, db, uuid, wr, loaded, rd>>

NextQuery ==
    \/ Winners
    \/ AllPlayers
    \/ \E a \in Alignments : PlayersWithAlignment(a)
    \/ \E r \in Roles : RoleAlignment(r)

SpecQuery == InitQuery /\ [][NextQuery]_vars

-----------------------------------------------------------------------------
(* SpecStandings: a slice of games folded and rendered *)

InitStandings ==
    /\ games \in SeqsUpTo(StandingsGames, MaxGames)
    /\ standing = None /\ by_alignment = None /\ shown = None
    /\ QueryIdle /\ StoreIdle

ComputeStandings ==
    /\ standing = None
    /\ standing' = Some(standings(games))
    /\ UNCHANGED <<game, q_winners, q_all, q_with, q_align, games, by_alignment, shown, db, uuid, wr, loaded, rd>>

ComputeStandingsByAlignment ==
    /\ by_alignment = None
    /\ by_alignment' = Some(standings_by_alignment(games))
    /\ UNCHANGED <<game, q_winners, q_all, q_with, q_align, games, standing, shown, db, uuid, wr, loaded, rd>>

Fmt ==
    /\ standing # None /\ shown = None
    /\ \E order \in IterOrders(standing[1]) : shown' = Some(FmtLines(standing[1], order))
    /\ UNCHANGED <<game, q_winners, q_all, q_with, q_align, games, standing, by_alignment, db, uuid, wr, loaded, rd>>

NextStandings == ComputeStandings \/ ComputeStandingsByAlignment \/ Fmt

SpecStandings == InitStandings /\ [][NextStandings]_vars

-----------------------------------------------------------------------------
(* Spec: one caller stores a game, step by step; find_game calls run between *)
(* its steps.                                                                *)

Init == QueryIdle /\ StandingsIdle /\ StoreIdle

\* The ids find_game is asked for: each one handed out, and one never
\* handed out.
AskedIds == 1..(uuid + 1)

Next ==
    \/ \E g \in StoreGames : Call("w1", g)
    \/ create_game("w1")
    \/ \E id \in AskedIds : FindGame(id)

Spec == Init /\ [][Next]_vars

(* SpecTxn: two callers store a game each while a third runs find_game, all *)
(* interleaved at their awaits.                                             *)

NextTxn ==
    \/ \E w \in Writers : \E g \in TxnGames : Call(w, g)
    \/ \E w \in Writers : create_game(w)
    \/ \E id \in AskedIds : StartFind(id)
    \/ find_game_steps

SpecTxn == Init /\ [][NextTxn]_vars

(* SpecDecode: find_game on a database file whose text columns hold any     *)
(* text.                                                                    *)

InitDecode ==
    /\ QueryIdle /\ StandingsIdle
    /\ \E winner \in RawWinners : \E role \in RawRoles : \E status \in RawStatuses :
          db = RawDb(winner, role, status)
    /\ uuid = 2 /\ wr = [w \in Writers |-> IdleWriter]
    /\ loaded = None /\ rd = IdleReader

NextDecode == \E id \in AskedIds : FindGame(id)

SpecDecode == InitDecode /\ [][NextDecode]_vars

-----------------------------------------------------------------------------
(* Claims on the game queries and the role table (SpecQuery) *)

\* C6: for every game, winners(g) is a subset of all_players(g) and equals
\* players_with_alignment(g, g.result.winner) as a set, the empty player map
\* included.
C6_WinnersAreWinningSide ==
    /\ (q_winners # None /\ q_all # None) => q_winners[1] \subseteq q_all[1]
    /\ (q_winners # None /\ q_with # None /\ q_with[1].alignment = game.result.winner)
          => q_winners[1] = q_with[1].players
    /\ (q_winners # None /\ q_all # None /\ game.players = <<>>)
          => (q_winners[1] = {} /\ q_all[1] = {})

C6_Witness ==
    /\ q_winners = Some({"bob"}) /\ q_all = Some({"alice", "bob"})
    /\ q_with # None /\ q_with[1] = [alignment |-> "Evil", players |-> {"bob"}]
    /\ game.result.winner = "Evil"
    /\ game.players["alice"] = "ReverseOberon" /\ game.players["bob"] = "Oberon"

\* C7: Role::alignment answers for each of the nine roles, and with the
\* alignment the fixed table gives: Assassin, Morgana, Minion, Mordred, Oberon
\* are Evil; Merlin, Percival, ReverseOberon, Servant are Good.
C7_AlignmentTable ==
    /\ Cardinality(Roles) = 9
    /\ \A r \in Roles : ENABLED RoleAlignment(r) \/ q_align # None
    /\ q_align # None =>
         LET r == q_align[1].role
             a == q_align[1].alignment
         IN  /\ a \in Alignments
             /\ r \in {"Assassin", "Morgana", "Minion", "Mordred", "Oberon"} => a = "Evil"
             /\ r \in {"Merlin", "Percival", "ReverseOberon", "Servant"} => a = "Good"
             /\ r \in {"Assassin", "Morgana", "Minion", "Mordred", "Oberon",
                       "Merlin", "Percival", "ReverseOberon", "Servant"}

C7_Witness == q_align = Some([role |-> "Oberon", alignment |-> "Evil"])

-----------------------------------------------------------------------------
(* Claims on the standings (SpecStandings) *)

\* The games of the slice in which p plays.
GamesOf(p) == {i \in 1..Len(games) : p \in DOMAIN games[i].players}

\* The games of the slice in which p plays a role of alignment a.
GamesAs(p, a) == {i \in GamesOf(p) : alignment(games[i].players[p]) = a}

\* C1: after standings() has folded the games, a player has an entry exactly
\* when some game's player map contains the player; the entry's wins + losses
\* is the number of those games, and its wins the number of them whose
\* declared winner is the alignment of the player's role in that game.
C1_StandingsCountGames ==
    standing # None =>
        \A p \in PlayerNames :
            LET st == standing[1]
                won == {i \in GamesOf(p) : alignment(games[i].players[p]) = games[i].result.winner}
            IN  IF GamesOf(p) = {} THEN p \notin DOMAIN st
                ELSE /\ p \in DOMAIN st
                     /\ st[p].wins + st[p].losses = Cardinality(GamesOf(p))
                     /\ st[p].wins = Cardinality(won)

C1_Witness ==
    /\ Len(games) = 3
    /\ standing # None
    /\ DOMAIN standing[1] = {"alice"}
    /\ standing[1]["alice"] = [wins |-> 1, losses |-> 1]

\* C5: after standings_by_alignment() has folded the games, a player has an
\* entry in bucket A exactly when the player held alignment A in some game;
\* the entry's wins + losses is the number of those games and its wins the
\* number of them that A won; games played under the other alignment add
\* nothing to it.
C5_BucketsCountOwnAlignment ==
    (by_alignment # None /\ games # <<>>) =>
        /\ DOMAIN by_alignment[1] = Alignments
        /\ \A a \in Alignments : \A p \in PlayerNames :
            LET st == by_alignment[1][a]
                won == {i \in GamesAs(p, a) : games[i].result.winner = a}
            IN  IF GamesAs(p, a) = {} THEN p \notin DOMAIN st
                ELSE /\ p \in DOMAIN st
                     /\ st[p].wins + st[p].losses = Cardinality(GamesAs(p, a))
                     /\ st[p].wins = Cardinality(won)

C5_Witness ==
    /\ by_alignment # None /\ Len(games) = 3
    /\ "alice" \in DOMAIN by_alignment[1]["Good"]
    /\ "alice" \in DOMAIN by_alignment[1]["Evil"]
    /\ by_alignment[1]["Good"]["alice"] = [wins |-> 1, losses |-> 1]
    /\ by_alignment[1]["Evil"]["alice"] = [wins |-> 0, losses |-> 1]

\* C3: the lines Standings::fmt writes are in the ranking order: more wins
\* first, then the higher win percentage, then the smaller name, whatever
\* order the map iterated in.
C3_LinesInRankingOrder ==
    shown # None =>
        \A i, j \in 1..Len(shown[1]) :
            i < j => RankingOrder(shown[1][i], shown[1][j]) = "Less"

\* What the presenter does guarantee: wins never increase down the table,
\* and among equal wins the percentage never increases.
FmtSortedByWinsThenPercentage ==
    shown # None =>
        \A i, j \in 1..Len(shown[1]) :
            i < j => Compare(shown[1][i], shown[1][j]) # "Greater"

-----------------------------------------------------------------------------
(* Claims on the persistence adapter *)

\* C2: a game stored by create_game and loaded by find_game under its id is
\* the game that was stored, equal in every field.
C2_StorageRoundTrip ==
    \A w \in Writers :
        (loaded # None /\ loaded[1].id = wr[w].game_id /\ loaded[1].id \in loaded[1].after)
            => loaded[1].res = Result_Ok(wr[w].game)

\* What does survive the round trip: the player map, the winner, and each
\* quest's participants in order.
RoundTripKeepsPlayersWinnerParticipants ==
    \A w \in Writers :
        (loaded # None /\ loaded[1].id = wr[w].game_id /\ loaded[1].id \in loaded[1].after)
            => LET got == loaded[1].res.game
                   g == wr[w].game
               IN  /\ loaded[1].res.ok
                   /\ got.players = g.players
                   /\ got.result.winner = g.result.winner
                   /\ Len(got.quests) = Len(g.quests)
                   /\ \A i \in 1..Len(g.quests) :
                        got.quests[i].participants = g.quests[i].participants

\* C8: a game whose create_game call returned Ok has every quest participant
\* among its players, and no participant row names someone who has no
\* player row in the same game.
C8_ParticipantsArePlayers ==
    \A w \in Writers :
        wr[w].pc = "ok" =>
            /\ \A i \in 1..Len(wr[w].game.quests) :
                 \A j \in 1..Len(wr[w].game.quests[i].participants) :
                    wr[w].game.quests[i].participants[j] \in DOMAIN wr[w].game.players
            /\ \A k \in 1..Len(db.quest_participants) :
                 db.quest_participants[k].quest_id \in {wr[w].quest_ids[i] : i \in 1..Len(wr[w].quest_ids)}
                    => \E r \in SelectPlayers(db, wr[w].game_id) : r.name = db.quest_participants[k].name

\* C9: when find_game returns a game, every winner, role and quest status it
\* read for that game was the exact text of a known value.
C9_DecodingFailsClosed ==
    (loaded # None /\ loaded[1].res.ok) =>
        LET id == loaded[1].id
            qids == SelectQuestIds(db, id)
        IN  /\ \A r \in SelectWinner(db, id) : r.winner \in {Some("good"), Some("evil")}
            /\ \A r \in SelectPlayers(db, id) : r.role \in {RoleText(x) : x \in Roles}
            /\ \A i \in 1..Len(qids) : \A r \in SelectQuest(db, qids[i]) :
                 r.status \in {"success", "fail"}

\* The part of C9 the code keeps: an unknown role text is an error.
UnknownRoleIsAnError ==
    (loaded # None /\ loaded[1].res.ok) =>
        \A r \in SelectPlayers(db, loaded[1].id) : r.role \in {RoleText(x) : x \in Roles}

\* The rows of caller w's game that are committed.
RoleRows(w) == SelectPlayers(db, wr[w].game_id)

QuestIdsOf(w) == {wr[w].quest_ids[i] : i \in 1..Len(wr[w].quest_ids)}

QuestRows(w) == {r \in db.quests : r.id \in QuestIdsOf(w)}

LinkRows(w) == {k \in 1..Len(db.games_to_quests) : db.games_to_quests[k].game_id = wr[w].game_id}

ParticipantRows(w) == {k \in 1..Len(db.quest_participants) : db.quest_participants[k].quest_id \in QuestIdsOf(w)}

NoneVisible(w) ==
    /\ SelectWinner(db, wr[w].game_id) = {} /\ RoleRows(w) = {} /\ QuestRows(w) = {}
    /\ LinkRows(w) = {} /\ ParticipantRows(w) = {}

AllVisible(w) ==
    LET g == wr[w].game
    IN  /\ Cardinality(SelectWinner(db, wr[w].game_id)) = 1
        /\ {r.name : r \in RoleRows(w)} = DOMAIN g.players
        /\ Len(wr[w].quest_ids) = Len(g.quests)
        /\ Cardinality(QuestRows(w)) = Len(g.quests)
        /\ SelectQuestIds(db, wr[w].game_id) = wr[w].quest_ids
        /\ \A i \in 1..Len(g.quests) :
             SelectParticipants(db, wr[w].quest_ids[i]) = g.quests[i].participants

\* C4: whatever the interleaving of two create_game calls and a find_game,
\* the committed rows of a call's game are all there or none is; none is
\* while the call runs or after it returned an error, all are after it
\* returned Ok; and a find_game that got past the header row of a game
\* finds all of its rows, returning what it would have with no write between
\* its queries.
C4_CreateGameAllOrNothing ==
    /\ \A w \in Writers :
         wr[w].game_id # 0 =>
            /\ NoneVisible(w) \/ AllVisible(w)
            /\ wr[w].pc = "ok" <=> AllVisible(w)
            /\ (rd.pc \notin {"idle", "winner"} /\ rd.id = wr[w].game_id /\ (rd.pc = "done" => rd.res.ok))
                  => AllVisible(w)
    /\ (rd.pc = "done" /\ rd.res.ok) => rd.res = find_game(db, rd.id)

C4_Witness ==
    /\ wr["w1"].pc = "ok" /\ wr["w2"].pc = "err"
    /\ Len(wr["w2"].quest_ids) = 1
    /\ wr["w1"].game_id > wr["w2"].game_id
    /\ rd.pc = "done" /\ rd.res.ok /\ rd.id = wr["w1"].game_id
    /\ DOMAIN rd.res.game.players = {"alice", "bob"}
    /\ Len(rd.res.game.quests) = 1
    /\ rd.res.game.quests[1].participants = <<"bob", "alice">>

\* C10: a find_game asked for an id that is not the id of a game whose
\* create_game returned Ok returns the not-found error, never a game, and no
\* step of find_game changes the committed rows.
C10_UnknownIdIsNotFound ==
    /\ [](rd.pc = "done" /\ rd.id \notin StoredIds => rd.res = Result_Err("RowNotFound"))
    /\ [][rd' # rd => db' = db]_vars

C10_Witness ==
    /\ wr["w1"].pc = "ok" /\ wr["w2"].pc = "err" /\ wr["w2"].game_id # 0
    /\ rd.pc = "done" /\ rd.id = wr["w2"].game_id /\ rd.res = Result_Err("RowNotFound")

\* C11: a game returned by find_game has every quest's status Success,
\* whatever status and fail count create_game stored for it, and its victory
\* type is Assassination when its winner is Evil and Quest when it is Good,
\* whatever victory type the stored game had.
C11_LoadIgnoresStatusAndVictoryType ==
    (loaded # None /\ loaded[1].res.ok) =>
        LET got == loaded[1].res.game
        IN  /\ \A i \in 1..Len(got.quests) : got.quests[i].status = "Success"
            /\ got.result.victory_type = "Assassination" <=> got.result.winner = "Evil"
            /\ got.result.victory_type = "Quest" <=> got.result.winner = "Good"
            /\ \A w \in Writers :
                 (loaded[1].id = wr[w].game_id /\ loaded[1].id \in loaded[1].after)
                    => /\ Len(got.quests) = Len(wr[w].game.quests)
                       /\ got.result.winner = wr[w].game.result.winner

C11_Witness ==
    /\ wr["w1"].pc = "ok"
    /\ Len(wr["w1"].game.quests) = 1
    /\ wr["w1"].game.quests[1].status = "Fail"
    /\ wr["w1"].game.quests[1].fails = Some(1)
    /\ wr["w1"].game.result = [winner |-> "Evil", victory_type |-> "Quest"]
    /\ \E r \in db.quests : r.status = "fail" /\ r.fails = Some(1)
    /\ loaded # None /\ loaded[1].id = wr["w1"].game_id /\ loaded[1].res.ok
    /\ loaded[1].res.game.quests[1].status = "Success"
    /\ loaded[1].res.game.result = [winner |-> "Evil", victory_type |-> "Assassination"]

====
